---------------------------- MODULE Spec2Model ----------------------------
(***************************************************************************)
(* A model of alert_on_new_posts.py: one run of the script is the          *)
(* configuration check, the recursive crawl of the listing pages, the load *)
(* of the previously seen links, the delta, the save of the snapshot and   *)
(* the e-mail alert.  Successive runs share only the state file.           *)
(*                                                                         *)
(* Strings the code inspects character by character (hrefs, links) are     *)
(* sequences of symbols; a symbol is a character or an opaque run of       *)
(* characters.  Page URLs are page numbers.                                *)
(***************************************************************************)
EXTENDS Integers, Sequences, FiniteSets, TLC

(***************************************************************************)
(* Bounds of the model.                                                    *)
(***************************************************************************)
\* number of distinct page URLs of the listing site
NumPages == 3
\* anchors one selector matches on one page, at most
MaxEntries == 2
\* frames of scrape_page the interpreter allows before RecursionError
RecursionLimit == 3

Pages == 1 .. NumPages

(***************************************************************************)
(* Strings.                                                                *)
(***************************************************************************)
BASE_URL == <<"https://www.ozbargain.com.au">>

Whitespace == {" ", "\t", "\n"}

\* str.startswith(c) for a one-character prefix c
StartsWith(s, c) == Len(s) > 0 /\ s[1] = c

RECURSIVE LStrip(_)
LStrip(s) == IF s # <<>> /\ Head(s) \in Whitespace THEN LStrip(Tail(s)) ELSE s

RECURSIVE RStrip(_)
RStrip(s) ==
    IF s # <<>> /\ s[Len(s)] \in Whitespace
    THEN RStrip(SubSeq(s, 1, Len(s) - 1))
    ELSE s

\* str.strip()
Strip(s) == RStrip(LStrip(s))

(***************************************************************************)
(* Configuration (lines 13-51).                                            *)
(***************************************************************************)
required_vars ==
    << "URL", "LAST_POSTS_FILE", "SENDER_EMAIL", "RECIPIENT_EMAIL", "TITLE",
       "RESEND_API_KEY" >>

RequiredSet == {required_vars[i] : i \in DOMAIN required_vars}

\* os.environ.get(var) of a variable that is not in the environment
Unset == "<unset>"

\* the values a variable may hold: unset, empty, or a usable value; the state
\* file's path is either a bare file name or a path with a directory
EnvValues(var) ==
    IF var = "LAST_POSTS_FILE"
    THEN {Unset, "", "posts.csv", "data/posts.csv"}
    ELSE {Unset, "", "x"}

Environments == {e \in [RequiredSet -> {Unset, "", "x", "posts.csv", "data/posts.csv"}] :
                    \A v \in RequiredSet : e[v] \in EnvValues(v)}

\* "not os.environ.get(var)": the variable is unset or empty
Falsy(value) == value = Unset \/ value = ""

\* the loop of lines 25-27 over required_vars[i..]: the missing names, in order
RECURSIVE MissingFrom(_, _)
MissingFrom(e, i) ==
    IF i > Len(required_vars) THEN <<>>
    ELSE IF Falsy(e[required_vars[i]])
         THEN <<required_vars[i]>> \o MissingFrom(e, i + 1)
         ELSE MissingFrom(e, i + 1)

\* missing_vars that stops at the first name it finds missing
missing_vars_first(e) ==
    IF MissingFrom(e, 1) = <<>> THEN <<>> ELSE <<Head(MissingFrom(e, 1))>>

missing_vars(e) == MissingFrom(e, 1)

\* os.path.dirname of the two path shapes of EnvValues
dirname(path) == IF path = "data/posts.csv" THEN "data" ELSE ""

(***************************************************************************)
(* Anchors of a listing page and the Records made from them.               *)
(* An anchor is what lines 86-99 read off it: href (a.get("href") or ""),  *)
(* text (get_text(" ", strip=True)) and date (the span.meta text of the    *)
(* following dd, "" when any link of that chain is absent).                *)
(***************************************************************************)
AnchorA       == [href |-> <<"/", "a">>,                  text |-> "T", date |-> "D"]
\* an absolute href that names the same deal as AnchorA, with another title
AnchorA2      == [href |-> BASE_URL \o <<"/", "a">>,      text |-> "U", date |-> ""]
AnchorB       == [href |-> <<"/", "b">>,                  text |-> "T", date |-> ""]
\* an absolute href with a trailing blank
AnchorW       == [href |-> BASE_URL \o <<"/", "b", " ">>, text |-> "T", date |-> ""]
AnchorNoHref  == [href |-> <<>>,                          text |-> "T", date |-> ""]
AnchorNoTitle == [href |-> <<"/", "b">>,                  text |-> "",  date |-> ""]

Anchors == {AnchorA, AnchorA2, AnchorB, AnchorW, AnchorNoHref, AnchorNoTitle}

\* the loop variable before the first iteration
NoAnchor == [href |-> <<>>, text |-> "", date |-> ""]

\* link_full that joins every href to the base URL
link_full_joined(href) == BASE_URL \o href

\* line 101
link_full(href) == IF StartsWith(href, "/") THEN BASE_URL \o href ELSE href

\* the dict of line 103
PostOf(a) == [title |-> a.text, link |-> link_full(a.href), date |-> a.date]

\* line 88: the entry is skipped
Skipped(a) == a.href = <<>> \/ a.text = ""

\* line 102: any(p.get("link") == link_full for p in all_posts)
HasLink(posts, link) == \E i \in DOMAIN posts : posts[i].link = link

\* ScrapeEntry with the post of a link already kept replaced by the later one
ScrapeEntryLastWins(posts, a) ==
    IF Skipped(a) THEN posts
    ELSE IF HasLink(posts, link_full(a.href))
         THEN [i \in DOMAIN posts |->
                 IF posts[i].link = link_full(a.href) THEN PostOf(a) ELSE posts[i]]
         ELSE Append(posts, PostOf(a))

\* one iteration of the loop of lines 84-103
ScrapeEntry(posts, a) ==
    IF Skipped(a) THEN posts
    ELSE IF HasLink(posts, link_full(a.href)) THEN posts
    ELSE Append(posts, PostOf(a))

Links(posts) == {posts[i].link : i \in DOMAIN posts}

(***************************************************************************)
(* The pager (lines 109-113): no tag, a tag without href, or a tag whose   *)
(* href leads to a page.                                                   *)
(***************************************************************************)
NoTag == 0
NoHref == -1
NextTags == {NoTag, NoHref} \cup Pages

\* next_full_url that goes back to the start URL
next_full_url_start(href) == 1

\* line 113: the URL of the page the pager's href names
next_full_url(href) == href

(***************************************************************************)
(* The state file: whether it exists and its rows under the header.        *)
(***************************************************************************)
NoFile == [exists |-> FALSE, rows |-> <<>>]
FileOf(rows) == [exists |-> TRUE, rows |-> rows]

\* lines 163-169: the row written for a post
RowOf(post) == [title |-> post.title, link |-> post.link, date |-> post.date]

RowsOf(posts) == [i \in DOMAIN posts |-> RowOf(posts[i])]

\* WriteRows with the file opened in append mode
WriteRowsAppended(old, posts) == old \o RowsOf(posts)

\* lines 159-169: the file is opened with mode "w", which drops the old rows,
\* and one row is written per post
WriteRows(old, posts) == RowsOf(posts)

\* lines 145-148 over the first k rows: the links read before the reader stopped
LinksRead(rows, k) ==
    {Strip(rows[i].link) : i \in {j \in 1 .. k : Strip(rows[j].link) # <<>>}}

\* check_for_new_posts that stops at the first post already seen
check_for_new_posts_until_seen(current, seen) ==
    LET known == {i \in DOMAIN current : current[i].link \in seen}
    IN  IF known = {} THEN current
        ELSE SubSeq(current, 1, (CHOOSE i \in known : \A j \in known : i <= j) - 1)

\* line 176
check_for_new_posts(current, seen) ==
    SelectSeq(current, LAMBDA post : post.link \notin seen)

(***************************************************************************)
(* The listing site.  When the listing is pinned, listing[p] is what page  *)
(* p serves for as long as the listing is not changed; when it is not      *)
(* pinned, every fetch may be answered by any page, revealed as the code   *)
(* reads it.                                                               *)
(***************************************************************************)
DownPage == [ok |-> FALSE, primary |-> <<>>, loose |-> <<>>, next |-> NoTag]
PageOf(primary, loose, next) ==
    [ok |-> TRUE, primary |-> primary, loose |-> loose, next |-> next]
DownListing == [p \in Pages |-> DownPage]

\* the state files a single run may find: none, and snapshots of earlier runs
InitFiles ==
    { NoFile, FileOf(<<RowOf(PostOf(AnchorA))>>),
      FileOf(<<RowOf(PostOf(AnchorB)), RowOf(PostOf(AnchorA2))>>) }

VARIABLES
    env,               \* os.environ, the required variables
    pinned, listing,   \* the listing site
    file,              \* the state file LAST_POSTS_FILE
    prev, prev2,       \* what the last run and the run before it did
    pc,                \* where the run stands
    outcome,           \* how the run ended
    reported,          \* the missing variables printed by line 31-34
    url, depth,        \* scrape_page: its url, the number of its frames
    all_posts,         \* the accumulator
    soup,              \* how many anchors each selector matches on the page
    search_result_links, \* the selector in use and the number of its matches
    idx, a,            \* the loop of line 84: iterations done, the anchor
    current_posts, last_post_links, new_posts,   \* lines 222-228
    events,            \* the run's calls to the outside, in order
    sent               \* the e-mails handed to resend.Emails.send

vars == << env, pinned, listing, file, prev, prev2, pc, outcome, reported, url,
           depth, all_posts, soup, search_result_links, idx, a, current_posts,
           last_post_links, new_posts, events, sent >>

siteVars == << pinned, listing >>
crawlVars == << url, depth, all_posts, soup, search_result_links, idx, a >>
mainVars == << current_posts, last_post_links, new_posts >>

Event(op, page) == [op |-> op, page |-> page]

Range(seq) == {seq[i] : i \in DOMAIN seq}

NoSoup == [primary |-> 0, loose |-> 0]
NoLinks == [selector |-> "primary", n |-> 0]

\* the state of a fresh process
FreshRun ==
    /\ pc = "check_env"
    /\ outcome = "running"
    /\ reported = <<>>
    /\ url = 1
    /\ depth = 0
    /\ all_posts = <<>>
    /\ soup = NoSoup
    /\ search_result_links = NoLinks
    /\ idx = 0
    /\ a = NoAnchor
    /\ current_posts = <<>>
    /\ last_post_links = {}
    /\ new_posts = <<>>
    /\ events = <<>>
    /\ sent = <<>>

\* a fresh process starts
StartsFresh ==
    /\ pc' = "check_env"
    /\ outcome' = "running"
    /\ reported' = <<>>
    /\ url' = 1
    /\ depth' = 0
    /\ all_posts' = <<>>
    /\ soup' = NoSoup
    /\ search_result_links' = NoLinks
    /\ idx' = 0
    /\ a' = NoAnchor
    /\ current_posts' = <<>>
    /\ last_post_links' = {}
    /\ new_posts' = <<>>
    /\ events' = <<>>
    /\ sent' = <<>>

\* before the first run
NoPrev ==
    [ran |-> FALSE, listing |-> DownListing, posts |-> <<>>, new |-> <<>>,
     outcome |-> "running", saved |-> FALSE, send_failed |-> FALSE]
NoPrev2 == [ran |-> FALSE, posts |-> <<>>]

\* one run against a listing that may answer anything
Init ==
    /\ env \in Environments
    /\ pinned = FALSE
    /\ listing = DownListing
    /\ file \in InitFiles
    /\ prev = NoPrev
    /\ prev2 = NoPrev2
    /\ FreshRun

\* the process exit status: 0 after a normal end, 1 after sys.exit(1) and
\* after an uncaught exception
ExitStatus(o) == IF o = "completed" THEN 0 ELSE 1

Uncaught == {"RecursionError", "TypeError", "OSError"}

\* the run ends
Ends(how) == pc' = "done" /\ outcome' = how

(***************************************************************************)
(* Lines 13-40 and 216-222: the configuration check, then the first call   *)
(* of scrape_page from scrape_all_pages(URL).                              *)
(***************************************************************************)
CheckEnvironmentVars ==
    /\ pc = "check_env"
    /\ IF missing_vars(env) # <<>>
       THEN /\ reported' = missing_vars(env)
            /\ Ends("sys.exit(1)")
            /\ UNCHANGED << crawlVars >>
       ELSE /\ pc' = "scrape"
            /\ url' = 1
            /\ depth' = 1
            /\ all_posts' = <<>>
            /\ UNCHANGED << outcome, reported, soup, search_result_links, idx, a >>
    /\ UNCHANGED << env, siteVars, file, prev, prev2, mainVars, events, sent >>

(***************************************************************************)
(* What the site serves.                                                   *)
(***************************************************************************)
ServedOutcomes(u) == IF pinned THEN {listing[u].ok} ELSE BOOLEAN

ServedCounts(u) ==
    IF pinned
    THEN {[primary |-> Len(listing[u].primary), loose |-> Len(listing[u].loose)]}
    ELSE [primary : 0 .. MaxEntries, loose : 0 .. MaxEntries]

ServedAnchors(u, selector, i) ==
    IF pinned THEN {listing[u][selector][i]} ELSE Anchors

ServedNext(u) == IF pinned THEN {listing[u].next} ELSE NextTags

(***************************************************************************)
(* scrape_page (lines 57-125).                                             *)
(***************************************************************************)
\* SelectLinks that always takes the looser selector
SelectLinksLoose(s) == [selector |-> "loose", n |-> s.loose]

\* lines 80-82: the primary selector, the looser one when it matches nothing
SelectLinks(s) ==
    IF s.primary > 0 THEN [selector |-> "primary", n |-> s.primary]
    ELSE [selector |-> "loose", n |-> s.loose]

\* the locals of a frame of scrape_page before it has assigned them; the
\* locals of the frames below are never read again
FreshFrame ==
    /\ soup' = NoSoup
    /\ search_result_links' = NoLinks
    /\ idx' = 0
    /\ a' = NoAnchor

\* the frame entered by the call of line 119 is the one too many: the stack
\* is exhausted in the calls nested under its requests.get (line 72), the
\* RecursionError is not a RequestException and leaves every frame
ScrapeOverflow ==
    /\ pc = "scrape"
    /\ depth > RecursionLimit
    /\ events' = Append(events, Event("fetch_overflow", url))
    /\ Ends("RecursionError")
    /\ UNCHANGED << env, siteVars, file, prev, prev2, reported, crawlVars,
                    mainVars, sent >>

\* lines 72-73 raise a RequestException: lines 123-125, and every frame
\* below returns the accumulator (line 121)
FetchFails ==
    /\ pc = "scrape"
    /\ depth <= RecursionLimit
    /\ FALSE \in ServedOutcomes(url)
    /\ events' = Append(events, Event("fetch_failed", url))
    /\ pc' = "main"
    /\ url' = 1
    /\ depth' = 0
    /\ UNCHANGED << env, siteVars, file, prev, prev2, outcome, reported,
                    all_posts, soup, search_result_links, idx, a, mainVars,
                    sent >>

\* lines 72-82: the page is fetched and parsed, the anchors are selected
FetchPage ==
    /\ pc = "scrape"
    /\ depth <= RecursionLimit
    /\ TRUE \in ServedOutcomes(url)
    /\ \E s \in ServedCounts(url) :
          /\ soup' = s
          /\ search_result_links' = SelectLinks(s)
    /\ idx' = 0
    /\ events' = Append(events, Event("fetch", url))
    /\ pc' = "loop"
    /\ UNCHANGED << env, siteVars, file, prev, prev2, outcome, reported, url,
                    depth, all_posts, a, mainVars, sent >>

\* one iteration of the loop of lines 84-103; the selectors' match counts are
\* not read after line 82
ExtractEntry ==
    /\ pc = "loop"
    /\ idx < search_result_links.n
    /\ \E anchor \in ServedAnchors(url, search_result_links.selector, idx + 1) :
          /\ a' = anchor
          /\ all_posts' = ScrapeEntry(all_posts, anchor)
    /\ idx' = idx + 1
    /\ soup' = NoSoup
    /\ UNCHANGED << env, siteVars, file, prev, prev2, pc, outcome, reported, url,
                    depth, search_result_links, mainVars, events, sent >>

\* time_sleep with the pause left out
time_sleep_skipped(evs) == evs

\* line 116: the pause before the next page is asked for
time_sleep(evs) == Append(evs, Event("sleep", 0))

\* lines 109-121 after the loop: without a pager tag the frame returns, and
\* so does every frame below it; a tag without href makes line 113 raise a
\* TypeError; otherwise the delay and the recursive call
NextPage ==
    /\ pc = "loop"
    /\ idx = search_result_links.n
    /\ \E tag \in ServedNext(url) :
          CASE tag = NoTag ->
                 /\ pc' = "main"
                 /\ url' = 1
                 /\ depth' = 0
                 /\ UNCHANGED << outcome, events >>
            [] tag = NoHref ->
                 /\ Ends("TypeError")
                 /\ UNCHANGED << url, depth, events >>
            [] OTHER ->
                 /\ events' = time_sleep(events)
                 /\ url' = next_full_url(tag)
                 /\ depth' = depth + 1
                 /\ pc' = "scrape"
                 /\ UNCHANGED outcome
    /\ FreshFrame
    /\ UNCHANGED << env, siteVars, file, prev, prev2, reported, all_posts,
                    mainVars, sent >>

(***************************************************************************)
(* The main block after the crawl (lines 222-236).                         *)
(***************************************************************************)
\* CrawlReturns without the test of line 224
CrawlReturnsUntested ==
    /\ pc = "main"
    /\ current_posts' = all_posts
    /\ pc' = "load"
    /\ UNCHANGED << env, siteVars, file, prev, prev2, outcome, reported,
                    crawlVars, last_post_links, new_posts, events, sent >>

\* lines 222-226
CrawlReturns ==
    /\ pc = "main"
    /\ current_posts' = all_posts
    /\ IF all_posts = <<>>
       THEN Ends("completed")
       ELSE pc' = "load" /\ UNCHANGED outcome
    /\ UNCHANGED << env, siteVars, file, prev, prev2, reported, crawlVars,
                    last_post_links, new_posts, events, sent >>

\* LoadLastPosts with the save of line 230 moved before the load of line 227
LoadLastPostsAfterSave ==
    /\ pc = "load"
    /\ file' = FileOf(RowsOf(current_posts))
    /\ last_post_links' = LinksRead(file'.rows, Len(file'.rows))
    /\ events' = events \o << Event("save", 0), Event("load", 0) >>
    /\ pc' = "diff"
    /\ UNCHANGED << env, siteVars, prev, prev2, outcome, reported,
                    crawlVars, current_posts, new_posts, sent >>

\* load_last_posts (lines 137-151): no file, or the links of the rows read;
\* when the read raises after k rows, line 151 returns the links read so far
LoadLastPosts ==
    /\ pc = "load"
    /\ IF ~file.exists
       THEN /\ last_post_links' = {}
            /\ events' = Append(events, Event("load", 0))
       ELSE \/ /\ last_post_links' = LinksRead(file.rows, Len(file.rows))
               /\ events' = Append(events, Event("load", 0))
            \/ \E k \in 0 .. Len(file.rows) :
                  /\ last_post_links' = LinksRead(file.rows, k)
                  /\ events' = Append(events, Event("load_failed", k))
    /\ pc' = "diff"
    /\ UNCHANGED << env, siteVars, file, prev, prev2, outcome, reported,
                    crawlVars, current_posts, new_posts, sent >>

\* line 228
CheckForNewPosts ==
    /\ pc = "diff"
    /\ new_posts' = check_for_new_posts(current_posts, last_post_links)
    /\ pc' = "save"
    /\ UNCHANGED << env, siteVars, file, prev, prev2, outcome, reported,
                    crawlVars, current_posts, last_post_links, events, sent >>

\* os.makedirs(dirname, exist_ok=True) of line 156 raises for the empty
\* dirname of a bare file name, and may raise for any other
MakedirsMayRaise(d) == IF d = "" THEN {TRUE} ELSE BOOLEAN

\* save_current_posts (lines 154-171): line 156 is outside the try; inside
\* it the open may raise, or the write of row k + 1 after k rows
SaveCurrentPosts ==
    /\ pc = "save"
    /\ \E raises \in MakedirsMayRaise(dirname(env["LAST_POSTS_FILE"])) :
          IF raises
          THEN /\ Ends("OSError")
               /\ events' = Append(events, Event("makedirs_failed", 0))
               /\ UNCHANGED file
          ELSE /\ pc' = "notify"
               /\ UNCHANGED outcome
               /\ \/ /\ file' = FileOf(WriteRows(file.rows, current_posts))
                     /\ events' = Append(events, Event("save", 0))
                  \/ /\ UNCHANGED file
                     /\ events' = Append(events, Event("open_failed", 0))
                  \/ \E k \in 0 .. Len(current_posts) - 1 :
                        /\ file' = FileOf(SubSeq(WriteRows(file.rows, current_posts), 1, k))
                        /\ events' = Append(events, Event("write_failed", k))
    /\ UNCHANGED << env, siteVars, prev, prev2, reported, crawlVars, mainVars,
                    sent >>

\* send_alert_email (lines 179-211): nothing is sent without an API key;
\* an exception of resend.Emails.send is caught
SendAlertEmail(posts) ==
    IF Falsy(env["RESEND_API_KEY"])
    THEN UNCHANGED << events, sent >>
    ELSE \E delivered \in BOOLEAN :
           /\ sent' = Append(sent, posts)
           /\ events' = Append(events, Event(IF delivered THEN "send"
                                                         ELSE "send_failed", 0))

\* lines 232-236
Notify ==
    /\ pc = "notify"
    /\ IF new_posts # <<>>
       THEN SendAlertEmail(new_posts)
       ELSE UNCHANGED << events, sent >>
    /\ Ends("completed")
    /\ UNCHANGED << env, siteVars, file, prev, prev2, reported, crawlVars,
                    mainVars >>

(***************************************************************************)
(* Successive runs: the scheduler starts the script again; between two     *)
(* runs the listing may change, the environment and the state file do not. *)
(***************************************************************************)
Listing(p1, p2, p3) ==
    [p \in Pages |-> IF p = 1 THEN p1 ELSE IF p = 2 THEN p2
                      ELSE IF p = 3 THEN p3 ELSE DownPage]

\* one page with two deals
ListingAB == Listing(PageOf(<<AnchorA, AnchorB>>, <<>>, NoTag), DownPage, DownPage)
\* the same page after deal a has gone
ListingB == Listing(PageOf(<<AnchorB>>, <<>>, NoTag), DownPage, DownPage)
\* three pages; deal a is listed twice, one href ends in a blank
ListingChain3 ==
    Listing(PageOf(<<AnchorA>>, <<>>, 2), PageOf(<<AnchorA2, AnchorB>>, <<>>, 3),
            PageOf(<<AnchorW, AnchorNoHref>>, <<AnchorB>>, NoTag))
\* two pages, the second without the primary container
ListingChain2 ==
    Listing(PageOf(<<AnchorB, AnchorB>>, <<>>, 2),
            PageOf(<<>>, <<AnchorNoTitle, AnchorA2>>, NoTag), DownPage)
\* the third page cannot be fetched
ListingFail3 ==
    Listing(PageOf(<<AnchorA2>>, <<>>, 2), PageOf(<<AnchorB, AnchorA>>, <<>>, 3),
            DownPage)
\* the second page cannot be fetched and the first has no usable anchor
ListingFail2 ==
    Listing(PageOf(<<AnchorNoHref>>, <<>>, 2), DownPage, DownPage)
\* the first page cannot be fetched
ListingDown == Listing(DownPage, DownPage, DownPage)
\* the pager of the second page leads back to the first
ListingLoop ==
    Listing(PageOf(<<AnchorA>>, <<>>, 2), PageOf(<<AnchorB>>, <<>>, 1), DownPage)

\* the pager of the only page has no href
ListingNoHref == Listing(PageOf(<<AnchorB>>, <<>>, NoHref), DownPage, DownPage)

\* one page whose only deal has an absolute href with a trailing blank
ListingW == Listing(PageOf(<<AnchorW>>, <<>>, NoTag), DownPage, DownPage)

\* neither selector matches on the first page; the second page has no
\* primary container
ListingEmptyFirst ==
    Listing(PageOf(<<>>, <<>>, 2), PageOf(<<>>, <<AnchorA>>, NoTag), DownPage)

ThinListings ==
    { ListingAB, ListingB, ListingChain3, ListingChain2, ListingFail3,
      ListingFail2, ListingDown, ListingLoop, ListingNoHref, ListingW,
      ListingEmptyFirst }

\* the environments of the successive runs: complete, with either shape of
\* the state file's path, or without TITLE
RunEnvironments ==
    {e \in Environments :
        /\ \A v \in RequiredSet \ {"LAST_POSTS_FILE", "TITLE"} : e[v] = "x"
        /\ e["LAST_POSTS_FILE"] \in {"posts.csv", "data/posts.csv"}
        /\ e["TITLE"] \in {"x", Unset}}

InitRuns ==
    /\ env \in RunEnvironments
    /\ pinned = TRUE
    /\ listing \in ThinListings
    /\ file = NoFile
    /\ prev = NoPrev
    /\ prev2 = NoPrev2
    /\ FreshRun

\* the next run of the script starts after this one has ended
NextRun ==
    /\ pc = "done"
    /\ prev2' = [ran |-> prev.ran, posts |-> prev.posts]
    /\ prev' = [ran |-> TRUE, listing |-> listing, posts |-> current_posts,
                new |-> new_posts, outcome |-> outcome,
                saved |-> Event("save", 0) \in Range(events),
                send_failed |-> Event("send_failed", 0) \in Range(events)]
    /\ listing' \in ThinListings
    /\ StartsFresh
    /\ UNCHANGED << env, pinned, file >>

Run ==
    \/ CheckEnvironmentVars
    \/ ScrapeOverflow
    \/ FetchFails
    \/ FetchPage
    \/ ExtractEntry
    \/ NextPage
    \/ CrawlReturns
    \/ LoadLastPosts
    \/ CheckForNewPosts
    \/ SaveCurrentPosts
    \/ Notify

Next == Run

\* one run of the script
Spec == Init /\ [][Next]_vars

NextRuns == Run \/ NextRun

\* successive runs of the script
SpecRuns == InitRuns /\ [][NextRuns]_vars

(***************************************************************************)
(* Properties.                                                             *)
(***************************************************************************)
IsPrefix(s, t) == Len(s) <= Len(t) /\ \A i \in DOMAIN s : s[i] = t[i]

FetchEvents(evs) == SelectSeq(evs, LAMBDA e : e.op \in {"fetch", "fetch_failed"})

\* posts are the entries of current whose link is not in seen, in the order
\* of current: the r-th such entry of current is the r-th post
IsDelta(posts, current, seen) ==
    LET fresh == {i \in DOMAIN current : current[i].link \notin seen}
        rank(i) == Cardinality({j \in fresh : j <= i})
    IN  /\ Len(posts) = Cardinality(fresh)
        /\ \A i \in fresh : posts[rank(i)] = current[i]

----------------------------------------------------------------------------
\* C1, first part: the accumulator never holds two posts with the same link.
C1_NoDuplicateLink ==
    \A i, j \in DOMAIN all_posts :
        all_posts[i].link = all_posts[j].link => i = j

\* C1, second part: a step of the crawl leaves the posts already kept where
\* and as they are and appends at most one; a loop iteration over a usable
\* anchor leaves its link in the accumulator, and what it appends is the post
\* of that anchor, whose link was not kept before.
C1_Step ==
    /\ IsPrefix(all_posts, all_posts')
    /\ Len(all_posts') <= Len(all_posts) + 1
    /\ (pc = "loop" /\ idx' = idx + 1) =>
          /\ ~Skipped(a') => HasLink(all_posts', link_full(a'.href))
          /\ Skipped(a') => all_posts' = all_posts
    /\ all_posts' # all_posts =>
          /\ pc = "loop" /\ idx' = idx + 1
          /\ all_posts'[Len(all_posts')] = PostOf(a')
          /\ ~HasLink(all_posts, PostOf(a').link)

\* C1: at every point of a crawl the accumulator holds no two posts with the
\* same link; it grows only by appending, in the order the anchors are read,
\* and the post kept for a link is the one of the link's first occurrence.
C1_FirstOccurrenceWins == [](C1_NoDuplicateLink) /\ [][C1_Step]_vars

\* C1 witness: on the second page an anchor with another title and href names
\* a deal already kept from the first page, and the first post is the one kept.
C1_Witness ==
    /\ pc = "loop" /\ depth = 2 /\ idx = 2
    /\ a = AnchorA2
    /\ all_posts = <<PostOf(AnchorA), PostOf(AnchorB)>>

----------------------------------------------------------------------------
\* C2: once line 228 has run, new_posts are exactly the posts of current_posts
\* whose link is not in last_post_links, in the order of current_posts: all
\* of them when nothing was seen, none when every link was seen; the step
\* changes neither current_posts nor last_post_links.
C2_Delta ==
    pc \in {"save", "notify"} =>
        /\ IsDelta(new_posts, current_posts, last_post_links)
        /\ last_post_links = {} => new_posts = current_posts
        /\ Links(current_posts) \subseteq last_post_links => new_posts = <<>>

C2_Frame ==
    pc = "diff" =>
        /\ current_posts' = current_posts
        /\ last_post_links' = last_post_links

C2_DeltaCorrect == [](C2_Delta) /\ [][C2_Frame]_vars

\* C2 witness: of three current posts the second was seen, and the first
\* and the third are the new ones.
C2_Witness ==
    /\ pc = "save"
    /\ Len(current_posts) = 3
    /\ current_posts[2].link \in last_post_links
    /\ new_posts = <<current_posts[1], current_posts[3]>>

----------------------------------------------------------------------------
WriteFailed(evs) == \E e \in Range(evs) : e.op \in {"open_failed", "write_failed"}

\* C3 as claimed: after every run that ends with exit status 0 the rows of the
\* state file are those of the collection the crawl returned.
C3_SnapshotAfterEveryRun ==
    (pc = "done" /\ ExitStatus(outcome) = 0) =>
        file.rows = RowsOf(current_posts)

\* C3 amended: after every run that ends with exit status 0, whose crawl
\* returned at least one post and whose save reported no write error, the
\* state file holds exactly the rows of the collection the crawl returned,
\* whatever it held before and whether or not a post was new.
C3_SnapshotAfterSave ==
    (/\ pc = "done" /\ ExitStatus(outcome) = 0
     /\ current_posts # <<>>
     /\ ~WriteFailed(events)) =>
        file = FileOf(RowsOf(current_posts))

\* C3 witness: a run that found nothing new has replaced a state file of two
\* rows by the one post of its crawl.
C3_Witness ==
    /\ pc = "done" /\ outcome = "completed"
    /\ Cardinality(last_post_links) = 2
    /\ new_posts = <<>>
    /\ current_posts = <<PostOf(AnchorA)>>
    /\ file = FileOf(<<RowOf(PostOf(AnchorA))>>)

----------------------------------------------------------------------------
\* this run crawls the listing the last run crawled; the last run ended with
\* exit status 0 after it had written its collection to the state file, and
\* this run has read the file without an error
RerunOfUnchangedListing ==
    /\ prev.ran /\ prev.listing = listing
    /\ ExitStatus(prev.outcome) = 0 /\ prev.saved
    /\ Event("load", 0) \in Range(events)

\* C4: the second of two successive runs against an unchanged listing, the
\* first of which saved its collection, computes no new post and sends no
\* e-mail.
C4_RerunFindsNothingNew ==
    (RerunOfUnchangedListing /\ pc \in {"save", "notify", "done"}) =>
        (new_posts = <<>> /\ sent = <<>>)

----------------------------------------------------------------------------
\* the fetch that failed was at least the second of the crawl
LaterPageFailed(evs) ==
    \E i \in 2 .. Len(FetchEvents(evs)) : FetchEvents(evs)[i].op = "fetch_failed"

\* C5: when the fetch of a page after the first fails, that fetch is the last
\* of the crawl and the crawl returns the accumulator as it stood; the run
\* then ends without a crash, and when posts had been accumulated it computes
\* their delta and, unless the write fails, leaves them in the state file.
C5_PartialCrawlIsKept ==
    LaterPageFailed(events) =>
        /\ FetchEvents(events)[Len(FetchEvents(events))].op = "fetch_failed"
        /\ pc \notin {"scrape", "loop"}
        /\ pc = "done" =>
              /\ outcome = "completed"
              /\ current_posts = all_posts
              /\ current_posts # <<>> =>
                    /\ IsDelta(new_posts, current_posts, last_post_links)
                    /\ ~WriteFailed(events) => file = FileOf(RowsOf(current_posts))

----------------------------------------------------------------------------
\* pages 1 .. n are fetched without error, each but the last has a pager that
\* leads to the next page, and page n has none
IsChain(l, n) ==
    \A p \in 1 .. n :
        l[p].ok /\ l[p].next = (IF p < n THEN p + 1 ELSE NoTag)

\* the anchors of a page: those of the primary selector, or those of the
\* looser one when the primary selector matches none
PageEntries(page) == IF page.primary # <<>> THEN page.primary ELSE page.loose

RECURSIVE ChainEntries(_, _)
ChainEntries(l, n) ==
    IF n = 0 THEN <<>> ELSE ChainEntries(l, n - 1) \o PageEntries(l[n])

\* posts are the posts of the usable entries, one per link, each from the
\* first entry with its link, in the order of those first entries
IsFirstOccurrences(posts, entries) ==
    LET usable == SelectSeq(entries, LAMBDA e : ~Skipped(e))
        first == {i \in DOMAIN usable :
                    \A j \in 1 .. i - 1 : PostOf(usable[j]).link # PostOf(usable[i]).link}
        rank(i) == Cardinality({j \in first : j <= i})
    IN  /\ Len(posts) = Cardinality(first)
        /\ \A i \in first : posts[rank(i)] = PostOf(usable[i])

----------------------------------------------------------------------------
HasNew(current, seen) == \E i \in DOMAIN current : current[i].link \notin seen

\* C7: a run whose crawl returned posts hands at most one e-mail to the
\* transport, and one if and only if a post has a link that was not seen; the
\* e-mail lists those posts in the order of the crawl; unless the write
\* fails, the state file then holds the crawl's collection.
C7_OneAlertForNewPosts ==
    (pc = "done" /\ current_posts # <<>>) =>
        /\ Len(sent) <= 1
        /\ Len(sent) = 1 <=> HasNew(current_posts, last_post_links)
        /\ sent # <<>> => IsDelta(sent[1], current_posts, last_post_links)
        /\ ~WriteFailed(events) => file = FileOf(RowsOf(current_posts))

----------------------------------------------------------------------------
CannotWrite(evs) ==
    \E e \in Range(evs) : e.op \in {"makedirs_failed", "open_failed", "write_failed"}

\* C8: a run in which a step of save_current_posts failed still ends with
\* exit status 0, and has sent the alert when there were new posts.
C8_WriteFailureIsNotFatal ==
    (pc = "done" /\ CannotWrite(events)) =>
        /\ ExitStatus(outcome) = 0
        /\ new_posts # <<>> => sent = <<new_posts>>

----------------------------------------------------------------------------
MissingSettings == {v \in RequiredSet : env[v] = Unset \/ env[v] = ""}

\* C9: once the configuration check has run, if a required setting is unset
\* or empty the process has ended with exit status 1, has reported exactly the
\* missing settings, each once, and has made no fetch, no access to the state
\* file and no dispatch; if none is missing the check has not ended the run.
C9_MissingSettingsAbortFirst ==
    pc # "check_env" =>
        IF MissingSettings # {}
        THEN /\ pc = "done" /\ outcome = "sys.exit(1)" /\ ExitStatus(outcome) = 1
             /\ Range(reported) = MissingSettings
             /\ Len(reported) = Cardinality(MissingSettings)
             /\ events = <<>> /\ sent = <<>>
        ELSE outcome # "sys.exit(1)" /\ reported = <<>>

\* C9 witness: the run has ended on two missing settings, one unset and one
\* empty, and has reported both.
C9_Witness ==
    /\ pc = "done" /\ outcome = "sys.exit(1)"
    /\ env["URL"] = "" /\ env["RESEND_API_KEY"] = Unset
    /\ reported = <<"URL", "RESEND_API_KEY">>

----------------------------------------------------------------------------
\* C10: every crawl returns to the main block, whatever the pagers of the
\* site lead to: no run ends with the stack of scrape_page exhausted.
C10_CrawlAlwaysReturns == outcome # "RecursionError"

----------------------------------------------------------------------------
ReadFailed(evs) == \E e \in Range(evs) : e.op = "load_failed"

\* C11: a run in which the read of the state file failed goes on with the
\* empty set of seen links, reports every post of its crawl as new and
\* hands all of them to the transport.
C11_ReadFailureMeansNoPriorState ==
    ReadFailed(events) =>
        /\ last_post_links = {}
        /\ pc \in {"save", "notify", "done"} => new_posts = current_posts
        /\ pc = "done" => sent = <<current_posts>>

----------------------------------------------------------------------------
\* the link the listing's contract gives an entry's href
ResolvedLink(href) == IF Head(href) = "/" THEN BASE_URL \o href ELSE href

\* an iteration of the extraction loop over the entry a': without href or
\* title it leaves the accumulator alone; otherwise the only post it can add
\* has the entry's title and date and the resolved link
C12_Step ==
    idx' = idx + 1 =>
        IF a'.href = <<>> \/ a'.text = ""
        THEN all_posts' = all_posts
        ELSE LET record == [title |-> a'.text, link |-> ResolvedLink(a'.href),
                            date |-> a'.date]
             IN  IF \E i \in DOMAIN all_posts : all_posts[i].link = record.link
                 THEN all_posts' = all_posts
                 ELSE all_posts' = Append(all_posts, record)

\* C12: the link of the post of an entry with href and title is BASE_URL
\* followed by the href when the href starts with "/", and the href itself
\* otherwise; an entry without href or without title yields no post.
C12_LinkResolution == [][C12_Step]_vars

\* C12 witness: a relative and an absolute href have each yielded a post,
\* and an entry without title has just been passed over.
C12_Witness ==
    /\ pc = "loop" /\ depth = 2 /\ idx = 2
    /\ a = AnchorNoTitle
    /\ all_posts = << [title |-> "T", date |-> "D",
                       link |-> <<"https://www.ozbargain.com.au", "/", "a">>],
                     [title |-> "T", date |-> "",
                       link |-> <<"https://www.ozbargain.com.au", "/", "b", " ">>] >>

----------------------------------------------------------------------------
\* the calls of requests.get, whatever became of them
IsFetchAttempt(e) == e.op \in {"fetch", "fetch_failed", "fetch_overflow"}

CountOf(evs, Test(_)) == Cardinality({i \in DOMAIN evs : Test(evs[i])})

IsDelay(e) == e.op = "sleep"

\* C13: every delay of a crawl comes right after the successful fetch of a
\* page that has a pager leading to a page, and right before the fetch
\* attempt of that page (which is the next thing the crawl does while the
\* delay is still the last event); once the crawl is over there is one delay
\* less than there are fetch attempts.
C13_DelayOnlyBetweenFetches ==
    /\ \A i \in DOMAIN events :
          IsDelay(events[i]) =>
              /\ i > 1 /\ events[i - 1].op = "fetch"
              /\ pinned => listing[events[i - 1].page].next \in Pages
              /\ IF i = Len(events)
                 THEN /\ pc = "scrape"
                      /\ pinned => url = listing[events[i - 1].page].next
                 ELSE /\ IsFetchAttempt(events[i + 1])
                      /\ pinned =>
                            events[i + 1].page = listing[events[i - 1].page].next
    /\ (pc \notin {"check_env", "scrape", "loop"}
            /\ CountOf(events, IsFetchAttempt) > 0) =>
          CountOf(events, IsDelay) = CountOf(events, IsFetchAttempt) - 1

\* C13 witness: a crawl of three fetch attempts, the last one failed, has
\* returned after two delays.
C13_Witness ==
    /\ pc = "main"
    /\ events = << Event("fetch", 1), Event("sleep", 0), Event("fetch", 2),
                   Event("sleep", 0), Event("fetch_failed", 3) >>

----------------------------------------------------------------------------
\* link was in the collection of the run before the previous one, is not in
\* the non-empty collection the previous run crawled and saved, and is in
\* the collection of this run
Reappears(link) ==
    /\ prev2.ran /\ link \in Links(prev2.posts)
    /\ prev.ran /\ prev.saved /\ prev.posts # <<>> /\ link \notin Links(prev.posts)
    /\ link \in Links(current_posts)

\* C14: a link that was crawled two runs ago, was missing from the non-empty
\* collection the previous run saved, and is crawled again by this run is
\* among the posts this run reports as new.
C14_ReappearingLinkIsNew ==
    pc \in {"save", "notify", "done"} =>
        \A link \in Links(current_posts) :
            Reappears(link) => link \in Links(new_posts)

----------------------------------------------------------------------------
\* C15: a run whose dispatch failed still ends with exit status 0 and with
\* the collection it saved in the state file; the next run, against the
\* unchanged listing, reports none of the undelivered posts as new and hands
\* nothing to the transport.
C15_FailedDispatchKeepsState ==
    /\ (pc = "done" /\ Event("send_failed", 0) \in Range(events)) =>
          /\ ExitStatus(outcome) = 0
          /\ Event("save", 0) \in Range(events) =>
                file = FileOf(RowsOf(current_posts))
    /\ (RerunOfUnchangedListing /\ prev.send_failed
            /\ pc \in {"save", "notify", "done"}) =>
          /\ \A i \in DOMAIN new_posts : new_posts[i] \notin Range(prev.new)
          /\ sent = <<>>

----------------------------------------------------------------------------
\* C16: the set of links load_last_posts reads without error from the file
\* the previous run saved is the set of links of the collection that run
\* saved, so no post of that collection would be new against it.
C16_SaveLoadRoundTrip ==
    (prev.ran /\ prev.saved /\ pc \in {"diff", "save"}
        /\ Event("load", 0) \in Range(events)) =>
        /\ last_post_links = Links(prev.posts)
        /\ check_for_new_posts(prev.posts, last_post_links) = <<>>

----------------------------------------------------------------------------
\* the crawl has returned to the main block without a post: the run ends at
\* once with exit status 0, with the state file, the record of accesses and
\* the dispatched e-mails as they were
C17_Step ==
    /\ (pc = "main" /\ all_posts = <<>>) =>
          /\ pc' \in {"main", "done"}
          /\ pc' = "done" => ExitStatus(outcome') = 0
          /\ file' = file /\ events' = events /\ sent' = sent
    /\ pc \in {"check_env", "scrape", "loop"} => file' = file

\* a run that has ended on an empty collection has only dealt with the site
C17_OnlyCrawled ==
    (pc = "done" /\ outcome = "completed" /\ current_posts = <<>>) =>
        /\ \A i \in DOMAIN events : events[i].op \in {"fetch", "fetch_failed", "sleep"}
        /\ sent = <<>>

\* C17: when the crawl returns an empty collection the run exits with status
\* 0 without having read or changed the state file and without a dispatch.
C17_EmptyCrawlTouchesNothing == [](C17_OnlyCrawled) /\ [][C17_Step]_vars

\* C17 witness: the first page had no usable entry, the fetch of the second
\* failed, and the run has ended with the state file it found.
C17_Witness ==
    /\ pc = "done" /\ outcome = "completed" /\ current_posts = <<>>
    /\ events = << Event("fetch", 1), Event("sleep", 0), Event("fetch_failed", 2) >>
    /\ file = FileOf(<<RowOf(PostOf(AnchorA))>>)

----------------------------------------------------------------------------
\* the stage of a run an event belongs to: crawl, load, save, notify
Stage(e) ==
    CASE e.op \in {"fetch", "fetch_failed", "fetch_overflow", "sleep"} -> 1
      [] e.op \in {"load", "load_failed"} -> 2
      [] e.op \in {"makedirs_failed", "save", "open_failed", "write_failed"} -> 3
      [] e.op \in {"send", "send_failed"} -> 4

StageCount(evs, n) == Cardinality({i \in DOMAIN evs : Stage(evs[i]) = n})

\* the events of a run come stage by stage, with at most one load, one save
\* and one dispatch, the save only after the load and the dispatch only after
\* the save; until the crawl has returned nothing is loaded or compared
C18_Stages ==
    /\ \A i, j \in DOMAIN events : i < j => Stage(events[i]) <= Stage(events[j])
    /\ \A n \in 2 .. 4 : StageCount(events, n) <= 1
    /\ \A n \in 3 .. 4 : StageCount(events, n) <= StageCount(events, n - 1)
    /\ pc \in {"diff", "save"} => StageCount(events, 2) = 1
    /\ pc \in {"check_env", "scrape", "loop", "main"} =>
          /\ last_post_links = {} /\ new_posts = <<>>
          /\ \A i \in DOMAIN events : Stage(events[i]) = 1

\* the seen links are set once, from the file as the run found it; the delta
\* is computed before anything is written; the file changes only in the
\* save, after the delta; the accumulator changes only in the crawl
C18_Step ==
    /\ pc \in {"check_env", "scrape", "loop", "main", "load", "diff"} => file' = file
    /\ last_post_links' # last_post_links =>
          /\ pc = "load" /\ StageCount(events, 3) = 0
          /\ last_post_links' \subseteq {Strip(file.rows[i].link) : i \in DOMAIN file.rows}
    /\ new_posts' # new_posts =>
          /\ pc = "diff" /\ StageCount(events, 3) = 0
          /\ new_posts' = check_for_new_posts(current_posts, last_post_links)
    /\ file' # file => pc = "save" /\ new_posts' = new_posts
    /\ all_posts' # all_posts => pc = "loop" /\ last_post_links = {}

\* C18: in every run the crawl, the load of the seen links, the delta, the
\* save and the dispatch come in that order; the seen links are loaded once,
\* before the save, from the state the run found; the deduplication of the
\* crawl happens before any seen link is loaded.
C18_StagesInOrder == [](C18_Stages) /\ [][C18_Step]_vars

\* C18 witness: a run that found deal a in the state file and crawled deals
\* a and b has reported b alone, saved both and dispatched.
C18_Witness ==
    /\ pc = "done"
    /\ events = << Event("fetch", 1), Event("load", 0), Event("save", 0),
                   Event("send", 0) >>
    /\ last_post_links = {PostOf(AnchorA).link}
    /\ current_posts = << PostOf(AnchorA), PostOf(AnchorB) >>
    /\ new_posts = << PostOf(AnchorB) >>
    /\ file = FileOf(RowsOf(current_posts))

----------------------------------------------------------------------------
\* the loop over a fetched page runs over the page's entries: the matches of
\* the primary selector, or those of the looser one when the primary
\* selector has none
C19_Entries ==
    (pinned /\ pc = "loop") =>
        /\ search_result_links.n = Len(PageEntries(listing[url]))
        /\ idx > 0 => a = PageEntries(listing[url])[idx]

\* an iteration can only add the post of the entry it is at; a page without
\* entries is left with the accumulator as it was and without an error, to
\* the page its pager leads to, or back to the caller when it has no pager
C19_Step ==
    (pinned /\ pc = "loop") =>
        /\ idx' = idx + 1 =>
              all_posts' \in {all_posts,
                              Append(all_posts, PostOf(PageEntries(listing[url])[idx']))}
        /\ (pc' # "loop" /\ PageEntries(listing[url]) = <<>>) =>
              /\ idx = 0 /\ all_posts' = all_posts
              /\ listing[url].next \in Pages =>
                    /\ pc' = "scrape" /\ url' = listing[url].next
                    /\ outcome' = "running"
              /\ listing[url].next = NoTag => pc' = "main" /\ outcome' = "running"

\* C19: the entries of a page are the matches of the primary selector when
\* there is at least one, and the matches of the looser selector otherwise;
\* a page where neither matches adds no post, raises no error, and the crawl
\* goes on to the page its pager leads to.
C19_SelectorFallback == [](C19_Entries) /\ [][C19_Step]_vars

\* C19 witness: the first page matched neither selector, the crawl went on
\* to the second page and took its post from the looser selector.
C19_Witness ==
    /\ listing = ListingEmptyFirst
    /\ pc = "loop" /\ url = 2 /\ idx = 1 /\ a = AnchorA
    /\ search_result_links.selector = "loose"
    /\ events = << Event("fetch", 1), Event("sleep", 0), Event("fetch", 2) >>
    /\ all_posts = << PostOf(AnchorA) >>

=============================================================================
